---- MODULE Spec2Model ----
(***************************************************************************)
(* The seat/room hold-quota engine of the travel booking backend:          *)
(* holdQuota.service (calculateMaxHolds, isHoldQuotaAvailable, holdSeats,  *)
(* releaseHold, convertHoldToBooking, releaseExpiredHolds) and the         *)
(* inventory-touching paths of booking.service (createBusBooking,          *)
(* createHotelBooking, confirmBooking, cancelBooking).                     *)
(*                                                                         *)
(* One bus schedule of one route of one partner, and one room inventory    *)
(* row.  Seat numbers are 1..TotalSeats (the default numbering of          *)
(* createSchedule).  Time is counted in minutes.                           *)
(***************************************************************************)
EXTENDS Integers, Sequences, FiniteSets, TLC

VARIABLES
    schedule,       \* the busSchedule row: status, counters, seatStatus
    holds,          \* the seatHold table, hold id = index
    bookings,       \* the booking table with its passengers, booking id = index
    roomInventory,  \* the roomInventory row: availableRooms, heldRooms, bookedRooms
    partner,        \* the partner row: hold policy
    now,            \* the wall clock, in minutes
    procs,          \* service calls in flight (concurrent requests)
    calc,           \* the last call of calculateMaxHolds: arguments and result
    wallet,         \* the wallet table: balance of each user
    orders          \* createOrder requests in flight (concurrent requests)

vars == <<schedule, holds, bookings, roomInventory, partner, now, procs, calc, wallet, orders>>

----------------------------------------------------------------------------
(* Bounds of the model *)

TotalSeats == 4          \* route.totalSeats
NumUsers == 2
MaxHoldRecords == 2      \* rows of seatHold
MaxBookingRecords == 2   \* rows of booking
MaxSeatsPerCall == 2     \* length of a seatNumbers / passengers list
MaxRequestedSeat == 2    \* requests name seats 1..MaxRequestedSeat
MaxPassengers == 1       \* passengers of a booking
MaxRooms == 2            \* roomInventory.availableRooms at creation
MaxTime == 20            \* the clock stops here
NumProcs == 3            \* concurrent service calls
MaxCalcSeats == 12       \* totalSeats passed to calculateMaxHolds on its own
InitialBalance == 3      \* wallet.balance of a user at the start
BookingAmount == 2       \* booking.totalAmount of every booking
MaxDrift == 1            \* how far a counter may leave 0..total before the model stops

(* Program constants *)

DEFAULT_HOLD_EXPIRY_MINUTES == 30
DEFAULT_HOLD_QUOTA_PERCENTAGE == 25
BOOKING_HOLD_MINUTES == 10
TickMinutes == 10
MAX_PERCENTAGE == 100    \* holdQuotaPercentage: isFloat({ min: 0, max: 100 })

Seats == 1..TotalSeats
Users == 1..NumUsers
Procs == 1..NumProcs
NoSeat == 0              \* a passenger without seatNumber
QuotaPercentages == {0, 50}
ExpiryMinutes == {DEFAULT_HOLD_EXPIRY_MINUTES}
\* a schedule is ACTIVE or not
ScheduleStatuses == {"ACTIVE", "CANCELLED"}
ReleaseReasons == {"EXPIRED", "USER_CANCELLED", "CONVERTED"}

Range(s) == {s[i] : i \in DOMAIN s}

\* the lists over S of length lo..hi, one per multiset (the order of a request's
\* seats changes nothing the code computes; a repeated seat does)
SeqsUpTo(S, lo, hi) ==
    {q \in UNION {[1..n -> S] : n \in lo..hi} :
       \A i \in DOMAIN q : \A j \in DOMAIN q : i <= j => q[i] <= q[j]}

RequestSeats == 1..MaxRequestedSeat
SeatLists == SeqsUpTo(RequestSeats, 0, MaxSeatsPerCall)
PassengerLists == SeqsUpTo(RequestSeats \cup {NoSeat}, 1, MaxPassengers)

----------------------------------------------------------------------------
(* holdQuota.service *)

\* variant that rounds the quota up
calculateMaxHoldsCeil(totalSeats, holdQuotaPercentage) ==
    (totalSeats * holdQuotaPercentage + 99) \div 100

calculateMaxHolds(totalSeats, holdQuotaPercentage) ==
    (totalSeats * holdQuotaPercentage) \div 100

\* partner.holdQuotaPercentage || DEFAULT_HOLD_QUOTA_PERCENTAGE: 0 is falsy
EffectivePercentage(p) ==
    IF p.holdQuotaPercentage = 0 THEN DEFAULT_HOLD_QUOTA_PERCENTAGE
    ELSE p.holdQuotaPercentage

\* variant that does not look at partner.holdQuotaEnabled
isHoldQuotaAvailableAnyPartner(sched, p, requestedSeats) ==
    LET maxAllowed == calculateMaxHolds(TotalSeats, EffectivePercentage(p))
    IN  [available |-> sched.heldSeats + requestedSeats <= maxAllowed,
         maxAllowed |-> maxAllowed,
         currentHeld |-> sched.heldSeats]

isHoldQuotaAvailable(sched, p, requestedSeats) ==
    IF ~p.holdQuotaEnabled
    THEN [available |-> FALSE, maxAllowed |-> 0, currentHeld |-> 0]
    ELSE LET maxAllowed == calculateMaxHolds(TotalSeats, EffectivePercentage(p))
         IN  [available |-> sched.heldSeats + requestedSeats <= maxAllowed,
              maxAllowed |-> maxAllowed,
              currentHeld |-> sched.heldSeats]

\* variant whose seat writes survive the failure of a later seat
holdSeatsTxNoRollback(sched, hs, seatNumbers, heldBy, holdExpiry) ==
    IF sched.status # "ACTIVE"
    THEN [ok |-> FALSE, schedule |-> sched, holds |-> hs]
    ELSE IF \E i \in DOMAIN seatNumbers : sched.seatStatus[seatNumbers[i]] # "AVAILABLE"
    THEN [ok |-> FALSE,
          schedule |->
            [sched EXCEPT
               !.seatStatus = [s \in Seats |->
                                 IF s \in Range(seatNumbers) /\ @[s] = "AVAILABLE"
                                 THEN "HELD" ELSE @[s]]],
          holds |-> hs]
    ELSE [ok |-> TRUE,
          schedule |->
            [sched EXCEPT
               !.seatStatus = [s \in Seats |->
                                 IF s \in Range(seatNumbers) THEN "HELD" ELSE @[s]],
               !.heldSeats = @ + Len(seatNumbers),
               !.availableSeats = @ - Len(seatNumbers)],
          holds |-> Append(hs, [seatNumbers |-> seatNumbers,
                                heldBy |-> heldBy,
                                holdExpiry |-> holdExpiry,
                                status |-> "ACTIVE"])]

\* the transaction of holdSeats: seat check, schedule update, hold record
holdSeatsTx(sched, hs, seatNumbers, heldBy, holdExpiry) ==
    IF \/ sched.status # "ACTIVE"
       \/ \E i \in DOMAIN seatNumbers : sched.seatStatus[seatNumbers[i]] # "AVAILABLE"
    THEN [ok |-> FALSE, schedule |-> sched, holds |-> hs]
    ELSE [ok |-> TRUE,
          schedule |->
            [sched EXCEPT
               !.seatStatus = [s \in Seats |->
                                 IF s \in Range(seatNumbers) THEN "HELD" ELSE @[s]],
               !.heldSeats = @ + Len(seatNumbers),
               !.availableSeats = @ - Len(seatNumbers)],
          holds |-> Append(hs, [seatNumbers |-> seatNumbers,
                                heldBy |-> heldBy,
                                holdExpiry |-> holdExpiry,
                                status |-> "ACTIVE"])]

\* holdSeats run to completion: quota check, then the transaction
holdSeats(sched, hs, p, seatNumbers, heldBy, holdExpiryMinutes, t) ==
    IF ~isHoldQuotaAvailable(sched, p, Len(seatNumbers)).available
    THEN [ok |-> FALSE, schedule |-> sched, holds |-> hs]
    ELSE holdSeatsTx(sched, hs, seatNumbers, heldBy, t + holdExpiryMinutes)

\* variant that only turns away holds already RELEASED
HoldIsNotReleased(hs, holdId) ==
    holdId \in DOMAIN hs /\ hs[holdId].status # "RELEASED"

HoldIsActive(hs, holdId) ==
    holdId \in DOMAIN hs /\ hs[holdId].status = "ACTIVE"

\* the writes of releaseHold's transaction
releaseHoldWrites(sched, hs, holdId, reason) ==
    LET hold == hs[holdId]
    IN  [ok |-> TRUE,
         schedule |->
           [sched EXCEPT
              !.seatStatus = [s \in Seats |->
                                IF s \in Range(hold.seatNumbers) /\ @[s] = "HELD"
                                THEN "AVAILABLE" ELSE @[s]],
              !.heldSeats = @ - Len(hold.seatNumbers),
              !.availableSeats = @ + Len(hold.seatNumbers)],
         holds |->
           [hs EXCEPT ![holdId].status =
              IF reason = "CONVERTED" THEN "CONVERTED" ELSE "RELEASED"]]

releaseHold(sched, hs, holdId, reason) ==
    IF ~HoldIsActive(hs, holdId)
    THEN [ok |-> FALSE, schedule |-> sched, holds |-> hs]
    ELSE releaseHoldWrites(sched, hs, holdId, reason)

\* variant that books only the seats still marked HELD
convertHoldWritesHeldOnly(sched, hs, holdId) ==
    LET hold == hs[holdId]
    IN  [ok |-> TRUE,
         schedule |->
           [sched EXCEPT
              !.seatStatus = [s \in Seats |->
                                IF s \in Range(hold.seatNumbers) /\ @[s] = "HELD"
                                THEN "BOOKED" ELSE @[s]],
              !.heldSeats = @ - Len(hold.seatNumbers),
              !.bookedSeats = @ + Len(hold.seatNumbers)],
         holds |-> [hs EXCEPT ![holdId].status = "CONVERTED"]]

\* the writes of convertHoldToBooking's transaction
convertHoldWrites(sched, hs, holdId) ==
    LET hold == hs[holdId]
    IN  [ok |-> TRUE,
         schedule |->
           [sched EXCEPT
              !.seatStatus = [s \in Seats |->
                                IF s \in Range(hold.seatNumbers)
                                THEN "BOOKED" ELSE @[s]],
              !.heldSeats = @ - Len(hold.seatNumbers),
              !.bookedSeats = @ + Len(hold.seatNumbers)],
         holds |-> [hs EXCEPT ![holdId].status = "CONVERTED"]]

convertHoldToBooking(sched, hs, holdId) ==
    IF ~HoldIsActive(hs, holdId)
    THEN [ok |-> FALSE, schedule |-> sched, holds |-> hs]
    ELSE convertHoldWrites(sched, hs, holdId)

\* findMany { status: ACTIVE, holdExpiry: { lt: now } }
ExpiredHolds(hs, t) ==
    {h \in DOMAIN hs : hs[h].status = "ACTIVE" /\ hs[h].holdExpiry < t}

\* the loop of releaseExpiredHolds over the holds it found
RECURSIVE releaseAll(_, _, _)
releaseAll(sched, hs, ids) ==
    IF ids = {} THEN [ok |-> TRUE, schedule |-> sched, holds |-> hs]
    ELSE LET h == CHOOSE x \in ids : \A y \in ids : x <= y
             r == releaseHold(sched, hs, h, "EXPIRED")
         IN  releaseAll(r.schedule, r.holds, ids \ {h})

releaseExpiredHolds(sched, hs, t) == releaseAll(sched, hs, ExpiredHolds(hs, t))

\* getHoldQuotaStatus of the bus schedule
getHoldQuotaStatus(sched, hs, p) ==
    LET holdQuotaPercentage == EffectivePercentage(p)
        maxHolds == calculateMaxHolds(TotalSeats, holdQuotaPercentage)
    IN  [holdQuotaEnabled |-> p.holdQuotaEnabled,
         holdQuotaPercentage |-> holdQuotaPercentage,
         maxHoldsAllowed |-> maxHolds,
         currentHolds |-> sched.heldSeats,
         availableHolds |-> IF maxHolds - sched.heldSeats > 0
                            THEN maxHolds - sched.heldSeats ELSE 0,
         activeHoldRecords |-> Cardinality({h \in DOMAIN hs : hs[h].status = "ACTIVE"})]

----------------------------------------------------------------------------
(* booking.service *)

\* passengers.map(p => p.seatNumber).filter(Boolean)
requestedSeatsOf(passengers) == SelectSeq(passengers, LAMBDA s : s # NoSeat)

\* the checks of createBusBooking before it creates the booking
busBookingAdmissible(sched, passengers) ==
    /\ sched.status = "ACTIVE"
    /\ sched.availableSeats >= Len(passengers)
    /\ \A i \in DOMAIN passengers :
         passengers[i] # NoSeat => sched.seatStatus[passengers[i]] = "AVAILABLE"

\* createBusBooking: the booking is created when the checks pass and, if seats
\* were named, holdSeats succeeds; a failed hold throws and rolls it back
createBusBooking(sched, hs, bks, p, userId, passengers, t) ==
    LET requestedSeats == requestedSeatsOf(passengers)
        h == IF requestedSeats # <<>>
             THEN holdSeats(sched, hs, p, requestedSeats, userId, BOOKING_HOLD_MINUTES, t)
             ELSE [ok |-> TRUE, schedule |-> sched, holds |-> hs]
    IN  IF busBookingAdmissible(sched, passengers) /\ h.ok
        THEN [ok |-> TRUE, schedule |-> h.schedule, holds |-> h.holds,
              bookings |-> Append(bks, [userId |-> userId,
                                        category |-> "BUS",
                                        status |-> "PENDING",
                                        razorpayOrderId |-> FALSE,
                                        passengers |-> passengers])]
        ELSE [ok |-> FALSE, schedule |-> sched, holds |-> hs, bookings |-> bks]

\* variant of the cancellation that gives back only the passengers with a seat
cancelBusInventorySeatedOnly(sched, passengers) ==
    [sched EXCEPT
       !.seatStatus = [s \in Seats |->
                         IF s \in Range(passengers) THEN "AVAILABLE" ELSE @[s]],
       !.bookedSeats = @ - Len(passengers),
       !.availableSeats = @ + Len(requestedSeatsOf(passengers))]

\* release of bus inventory by cancelBooking
cancelBusInventory(sched, passengers) ==
    [sched EXCEPT
       !.seatStatus = [s \in Seats |->
                         IF s \in Range(passengers) THEN "AVAILABLE" ELSE @[s]],
       !.bookedSeats = @ - Len(passengers),
       !.availableSeats = @ + Len(passengers)]

\* release of room inventory by cancelBooking
cancelRoomInventory(inv) ==
    [inv EXCEPT !.bookedRooms = @ - 1, !.availableRooms = @ + 1]

\* findFirst { scheduleId, heldBy: booking.userId, status: ACTIVE }
ActiveHoldsOf(hs, userId) ==
    {h \in DOMAIN hs : hs[h].heldBy = userId /\ hs[h].status = "ACTIVE"}

----------------------------------------------------------------------------
(* The counters are database integers; the model follows them MaxDrift
   beyond their nominal range and no further. *)

SeatCountersBounded(sched) ==
    \A c \in {sched.availableSeats, sched.heldSeats, sched.bookedSeats} :
       c \in (0 - MaxDrift)..(TotalSeats + MaxDrift)

RoomCountersBounded(inv) ==
    \A c \in {inv.availableRooms, inv.heldRooms, inv.bookedRooms} :
       c \in (0 - MaxDrift)..(MaxRooms + MaxDrift)

----------------------------------------------------------------------------
(* Users and seats are interchangeable: a request names a user or a seat that
   no record names yet only when it is the lowest such one. *)

UsedUsers ==
    {holds[i].heldBy : i \in DOMAIN holds} \cup {bookings[i].userId : i \in DOMAIN bookings}

UsedSeats ==
    UNION ({Range(holds[i].seatNumbers) : i \in DOMAIN holds}
           \cup {Range(bookings[i].passengers) : i \in DOMAIN bookings})

Callers == {u \in Users : u = 1 \/ (u - 1) \in UsedUsers}

Canonical(list) ==
    \A s \in Range(list) \ {NoSeat} : s = 1 \/ (s - 1) \in UsedSeats \cup Range(list)

----------------------------------------------------------------------------
(* Initial state: a freshly created schedule and room inventory *)

\* calculateMaxHolds has not been called: the record of a call on an empty route
NoCalc == [totalSeats |-> 0, holdQuotaPercentage |-> 0, maxHolds |-> 0]

\* a createOrder request that has not started
NoOrder == [pc |-> "idle", userId |-> 0, bookingId |-> 0]

NoProc == [op |-> "none", pc |-> "idle", holdId |-> 0, seatNumbers |-> <<>>, ok |-> FALSE]

Init ==
    /\ schedule = [status |-> "ACTIVE",
                   availableSeats |-> TotalSeats,
                   heldSeats |-> 0,
                   bookedSeats |-> 0,
                   seatStatus |-> [s \in Seats |-> "AVAILABLE"]]
    /\ holds = <<>>
    /\ bookings = <<>>
    /\ roomInventory = [availableRooms |-> MaxRooms, heldRooms |-> 0, bookedRooms |-> 0]
    /\ partner \in [holdQuotaEnabled : BOOLEAN,
                    holdQuotaPercentage : QuotaPercentages,
                    holdExpiryMinutes : {20}]
    /\ now = 0
    /\ procs = [p \in Procs |-> NoProc]
    /\ calc = NoCalc
    /\ wallet = [u \in Users |-> InitialBalance]
    /\ orders = [p \in Procs |-> NoOrder]

----------------------------------------------------------------------------
(* Sequential calls: each runs to completion before the next starts *)

HoldSeats ==
    \E seatNumbers \in SeatLists, heldBy \in Callers, m \in ExpiryMinutes :
       LET r == holdSeats(schedule, holds, partner, seatNumbers, heldBy, m, now)
       IN  /\ Len(holds) < MaxHoldRecords
           /\ Canonical(seatNumbers)
           /\ schedule' = r.schedule
           /\ holds' = r.holds
           /\ UNCHANGED <<bookings, roomInventory, partner, now, procs, calc, wallet, orders>>

ReleaseHold ==
    \E holdId \in 1..MaxHoldRecords, reason \in ReleaseReasons :
       LET r == releaseHold(schedule, holds, holdId, reason)
       IN  /\ schedule' = r.schedule
           /\ holds' = r.holds
           /\ UNCHANGED <<bookings, roomInventory, partner, now, procs, calc, wallet, orders>>

ConvertHoldToBooking ==
    \E holdId \in 1..MaxHoldRecords :
       LET r == convertHoldToBooking(schedule, holds, holdId)
       IN  /\ schedule' = r.schedule
           /\ holds' = r.holds
           /\ UNCHANGED <<bookings, roomInventory, partner, now, procs, calc, wallet, orders>>

ReleaseExpiredHolds ==
    LET r == releaseExpiredHolds(schedule, holds, now)
    IN  /\ schedule' = r.schedule
        /\ holds' = r.holds
        /\ UNCHANGED <<bookings, roomInventory, partner, now, procs, calc, wallet, orders>>

CreateBusBooking ==
    \E userId \in Callers, passengers \in PassengerLists :
       LET r == createBusBooking(schedule, holds, bookings, partner, userId, passengers, now)
       IN  /\ Len(bookings) < MaxBookingRecords
           /\ Len(holds) < MaxHoldRecords
           /\ Canonical(passengers)
           /\ schedule' = r.schedule
           /\ holds' = r.holds
           /\ bookings' = r.bookings
           /\ UNCHANGED <<roomInventory, partner, now, procs, calc, wallet, orders>>

CreateHotelBooking ==
    \E userId \in Callers :
       LET ok == roomInventory.availableRooms >= 1
       IN  /\ Len(bookings) < MaxBookingRecords
           /\ IF ok
              THEN /\ bookings' = Append(bookings,
                                         [userId |-> userId,
                                          category |-> "HOTEL",
                                          status |-> "PENDING",
                                          razorpayOrderId |-> FALSE,
                                          passengers |-> <<NoSeat>>])
                   /\ roomInventory' = [roomInventory EXCEPT
                                          !.availableRooms = @ - 1,
                                          !.heldRooms = @ + 1]
              ELSE UNCHANGED <<bookings, roomInventory>>
           /\ UNCHANGED <<schedule, holds, partner, now, procs, calc, wallet, orders>>

\* confirmBooking of an existing booking (the update of a missing one throws)
ConfirmBookingOf(bookingId) ==
       LET booking == bookings[bookingId]
           candidates == ActiveHoldsOf(holds, booking.userId)
       IN  /\ bookings' = [bookings EXCEPT ![bookingId].status = "CONFIRMED"]
           /\ IF booking.category = "BUS" /\ candidates # {}
              THEN \E hold \in candidates :
                      LET r == convertHoldToBooking(schedule, holds, hold)
                      IN  schedule' = r.schedule /\ holds' = r.holds
              ELSE UNCHANGED <<schedule, holds>>
           /\ IF booking.category = "HOTEL"
              THEN roomInventory' = [roomInventory EXCEPT
                                       !.heldRooms = @ - 1,
                                       !.bookedRooms = @ + 1]
              ELSE UNCHANGED roomInventory
           /\ RoomCountersBounded(roomInventory')
           /\ UNCHANGED <<partner, now, procs, calc, wallet, orders>>

ConfirmBooking == \E bookingId \in DOMAIN bookings : ConfirmBookingOf(bookingId)

CancelBooking ==
    \E bookingId \in 1..MaxBookingRecords, userId \in Users :
       LET ok == /\ bookingId \in DOMAIN bookings
                 /\ bookings[bookingId].userId = userId
                 /\ bookings[bookingId].status # "CANCELLED"
       IN  /\ IF ok
              THEN /\ bookings' = [bookings EXCEPT ![bookingId].status = "CANCELLED"]
                   /\ IF bookings[bookingId].category = "BUS"
                      THEN schedule' = cancelBusInventory(schedule,
                                                          bookings[bookingId].passengers)
                      ELSE UNCHANGED schedule
                   /\ IF bookings[bookingId].category = "HOTEL"
                      THEN roomInventory' = cancelRoomInventory(roomInventory)
                      ELSE UNCHANGED roomInventory
              ELSE UNCHANGED <<bookings, schedule, roomInventory>>
           /\ SeatCountersBounded(schedule')
           /\ RoomCountersBounded(roomInventory')
           /\ UNCHANGED <<holds, partner, now, procs, calc, wallet, orders>>

Tick ==
    /\ now + TickMinutes <= MaxTime
    /\ now' = now + TickMinutes
    /\ UNCHANGED <<schedule, holds, bookings, roomInventory, partner, procs, calc, wallet, orders>>

Next ==
    \/ HoldSeats
    \/ ReleaseHold
    \/ ConvertHoldToBooking
    \/ ReleaseExpiredHolds
    \/ CreateBusBooking
    \/ ConfirmBooking
    \/ CancelBooking
    \/ Tick

Spec == Init /\ [][Next]_vars

----------------------------------------------------------------------------
(* Booking flow only: the calls the booking and cron code make *)

NextBooking ==
    \/ CreateBusBooking
    \/ ConfirmBooking
    \/ CancelBooking
    \/ ReleaseExpiredHolds
    \/ Tick

SpecBooking == Init /\ [][NextBooking]_vars

----------------------------------------------------------------------------
(* Concurrent service calls.  holdSeats awaits isHoldQuotaAvailable before it
   opens its transaction; releaseHold and convertHoldToBooking read the hold
   with findUnique inside a transaction of the database's default isolation
   (read committed), which takes no lock, and write afterwards.  A call is
   therefore two steps: what it reads, then what it writes. *)

Idle(p) == procs[p].pc = "idle"

Finish(p, op, holdId, seatNumbers, ok) ==
    [procs EXCEPT ![p] = [op |-> op, pc |-> "done", holdId |-> holdId,
                          seatNumbers |-> seatNumbers, ok |-> ok]]

Pending(p, op, holdId, seatNumbers) ==
    [procs EXCEPT ![p] = [op |-> op, pc |-> "checked", holdId |-> holdId,
                          seatNumbers |-> seatNumbers, ok |-> FALSE]]

\* await isHoldQuotaAvailable(scheduleId, seatNumbers.length, category)
HoldSeatsCheck ==
    \E p \in Procs, seat \in Procs :
       /\ Idle(p)
       /\ procs' = IF isHoldQuotaAvailable(schedule, partner, 1).available
                   THEN Pending(p, "holdSeats", 0, <<seat>>)
                   ELSE Finish(p, "holdSeats", 0, <<seat>>, FALSE)
       /\ UNCHANGED <<schedule, holds, bookings, roomInventory, partner, now, calc, wallet, orders>>

\* prisma.$transaction of holdSeats
HoldSeatsCommit ==
    \E p \in Procs :
       /\ procs[p].pc = "checked" /\ procs[p].op = "holdSeats"
       /\ LET r == holdSeatsTx(schedule, holds, procs[p].seatNumbers, 1,
                               now + DEFAULT_HOLD_EXPIRY_MINUTES)
          IN  /\ schedule' = r.schedule
              /\ holds' = r.holds
              /\ procs' = Finish(p, "holdSeats", Len(r.holds), procs[p].seatNumbers, r.ok)
       /\ UNCHANGED <<bookings, roomInventory, partner, now, calc, wallet, orders>>

\* tx.seatHold.findUnique and the status check of releaseHold
ReleaseHoldRead ==
    \E p \in Procs, holdId \in DOMAIN holds :
       /\ Idle(p)
       /\ procs' = IF HoldIsActive(holds, holdId)
                   THEN Pending(p, "releaseHold", holdId, <<>>)
                   ELSE Finish(p, "releaseHold", holdId, <<>>, FALSE)
       /\ UNCHANGED <<schedule, holds, bookings, roomInventory, partner, now, calc, wallet, orders>>

\* the updates of releaseHold and its commit
ReleaseHoldCommit ==
    \E p \in Procs :
       /\ procs[p].pc = "checked" /\ procs[p].op = "releaseHold"
       /\ LET r == releaseHoldWrites(schedule, holds, procs[p].holdId, "EXPIRED")
          IN  /\ schedule' = r.schedule
              /\ holds' = r.holds
              /\ procs' = Finish(p, "releaseHold", procs[p].holdId, <<>>, TRUE)
       /\ UNCHANGED <<bookings, roomInventory, partner, now, calc, wallet, orders>>

\* tx.seatHold.findUnique and the status check of convertHoldToBooking
ConvertHoldRead ==
    \E p \in Procs, holdId \in DOMAIN holds :
       /\ Idle(p)
       /\ procs' = IF HoldIsActive(holds, holdId)
                   THEN Pending(p, "convertHoldToBooking", holdId, <<>>)
                   ELSE Finish(p, "convertHoldToBooking", holdId, <<>>, FALSE)
       /\ UNCHANGED <<schedule, holds, bookings, roomInventory, partner, now, calc, wallet, orders>>

\* the updates of convertHoldToBooking and its commit
ConvertHoldCommit ==
    \E p \in Procs :
       /\ procs[p].pc = "checked" /\ procs[p].op = "convertHoldToBooking"
       /\ LET r == convertHoldWrites(schedule, holds, procs[p].holdId)
          IN  /\ schedule' = r.schedule
              /\ holds' = r.holds
              /\ procs' = Finish(p, "convertHoldToBooking", procs[p].holdId, <<>>, TRUE)
       /\ UNCHANGED <<bookings, roomInventory, partner, now, calc, wallet, orders>>

NextConc ==
    \/ HoldSeatsCheck
    \/ HoldSeatsCommit
    \/ ReleaseHoldRead
    \/ ReleaseHoldCommit
    \/ ConvertHoldRead
    \/ ConvertHoldCommit

SpecConc == Init /\ [][NextConc]_vars

----------------------------------------------------------------------------
(* Hotel flow with the recurring sweeper: node-cron fires the job at every
   fifth minute for as long as the process runs, and time passes. *)

NextHotel ==
    \/ CreateHotelBooking
    \/ CreateBusBooking
    \/ ConfirmBooking
    \/ CancelBooking
    \/ ReleaseExpiredHolds
    \/ Tick

SpecHotel ==
    Init /\ [][NextHotel]_vars /\ WF_vars(ReleaseExpiredHolds) /\ WF_vars(Tick)

----------------------------------------------------------------------------
(* Payment controller: the wallet branch of createOrder and verifyPayment set
   the booking CONFIRMED themselves.  The wallet balance, the amount and the
   gateway signature are the caller's; a rejected request changes nothing. *)

PaymentMethods == {"wallet", "razorpay"}

CreateOrder ==
    \E bookingId \in 1..MaxBookingRecords, userId \in Users, method \in PaymentMethods :
       LET ok == /\ bookingId \in DOMAIN bookings
                 /\ bookings[bookingId].userId = userId
                 /\ bookings[bookingId].status = "PENDING"
                 /\ method = "wallet" => wallet[userId] >= BookingAmount
       IN  /\ bookings' = IF ~ok THEN bookings
                          ELSE IF method = "wallet"
                          THEN [bookings EXCEPT ![bookingId].status = "CONFIRMED"]
                          ELSE [bookings EXCEPT ![bookingId].razorpayOrderId = TRUE]
           /\ wallet' = IF ok /\ method = "wallet"
                        THEN [wallet EXCEPT ![userId] = @ - BookingAmount]
                        ELSE wallet
           /\ UNCHANGED <<schedule, holds, roomInventory, partner, now, procs, calc, orders>>

VerifyPayment ==
    \E bookingId \in DOMAIN bookings :
       /\ bookings[bookingId].razorpayOrderId
       /\ bookings' = [bookings EXCEPT ![bookingId].status = "CONFIRMED"]
       /\ UNCHANGED <<schedule, holds, roomInventory, partner, now, procs, calc, wallet, orders>>

NextPayment ==
    \/ CreateBusBooking
    \/ CreateOrder
    \/ VerifyPayment
    \/ ConfirmBooking
    \/ ReleaseExpiredHolds
    \/ Tick

SpecPayment == Init /\ [][NextPayment]_vars

----------------------------------------------------------------------------
(* Concurrent wallet payments.  createOrder runs outside any transaction: it
   reads the booking and the wallet, checks them, and only then sends the
   decrement and the booking update. *)

\* booking.findFirst, status and amount checks, wallet.findUnique, balance check
CreateOrderCheck ==
    \E p \in Procs, userId \in Users, bookingId \in DOMAIN bookings :
       LET ok == /\ bookings[bookingId].userId = userId
                 /\ bookings[bookingId].status = "PENDING"
                 /\ wallet[userId] >= BookingAmount
       IN  /\ orders[p].pc = "idle"
           /\ orders' = [orders EXCEPT ![p] =
                            [pc |-> IF ok THEN "checked" ELSE "done",
                             userId |-> userId, bookingId |-> bookingId]]
           /\ UNCHANGED <<schedule, holds, bookings, roomInventory, partner, now,
                          procs, calc, wallet>>

\* wallet.update { balance: { decrement: amount } }, then booking.update
CreateOrderPay ==
    \E p \in Procs :
       /\ orders[p].pc = "checked"
       /\ wallet' = [wallet EXCEPT ![orders[p].userId] = @ - BookingAmount]
       /\ bookings' = [bookings EXCEPT ![orders[p].bookingId].status = "CONFIRMED"]
       /\ orders' = [orders EXCEPT ![p].pc = "done"]
       /\ UNCHANGED <<schedule, holds, roomInventory, partner, now, procs, calc>>

NextWallet ==
    \/ CreateHotelBooking
    \/ CreateOrderCheck
    \/ CreateOrderPay

SpecWallet == Init /\ [][NextWallet]_vars

----------------------------------------------------------------------------
(* calculateMaxHolds on its own, over the arguments its contract allows *)

CalculateMaxHolds ==
    \E totalSeats \in 0..MaxCalcSeats, holdQuotaPercentage \in 0..MAX_PERCENTAGE :
       /\ calc' = [totalSeats |-> totalSeats,
                   holdQuotaPercentage |-> holdQuotaPercentage,
                   maxHolds |-> calculateMaxHolds(totalSeats, holdQuotaPercentage)]
       /\ UNCHANGED <<schedule, holds, bookings, roomInventory, partner, now, procs,
                      wallet, orders>>

NextCalc == CalculateMaxHolds

SpecCalc == Init /\ [][NextCalc]_vars

----------------------------------------------------------------------------
(* Properties *)

ActiveHolds == {h \in DOMAIN holds : holds[h].status = "ACTIVE"}

BusBookings(status) ==
    {b \in DOMAIN bookings : bookings[b].category = "BUS" /\ bookings[b].status = status}

SeatsOfBooking(b) == Range(bookings[b].passengers) \ {NoSeat}

\* C1: in every state reachable by holdSeats, releaseHold, convertHoldToBooking,
\* releaseExpiredHolds, createBusBooking, confirmBooking and cancelBooking,
\* availableSeats + heldSeats + bookedSeats equals the route's totalSeats.
C1_SeatCountersSumToTotal ==
    schedule.availableSeats + schedule.heldSeats + schedule.bookedSeats = TotalSeats

\* a state after a release, a conversion and a cancellation, with seats still held
C1_Witness ==
    /\ \E h \in DOMAIN holds : holds[h].status = "RELEASED"
    /\ \E h \in DOMAIN holds : holds[h].status = "CONVERTED"
    /\ BusBookings("CANCELLED") # {}
    /\ schedule.availableSeats # TotalSeats

\* C2: each of availableSeats, heldSeats and bookedSeats stays within
\* 0..totalSeats in every reachable state.
C2_CountersWithinRange ==
    \A c \in {schedule.availableSeats, schedule.heldSeats, schedule.bookedSeats} :
       c \in 0..TotalSeats

\* C3: no two ACTIVE holds of the schedule contain the same seat number.
C3_NoSeatInTwoActiveHolds ==
    \A h1 \in ActiveHolds : \A h2 \in ActiveHolds :
       h1 # h2 => Range(holds[h1].seatNumbers) \cap Range(holds[h2].seatNumbers) = {}

\* C4: no seat is assigned to two different bookings that are both CONFIRMED.
C4_NoSeatInTwoConfirmedBookings ==
    \A b1 \in BusBookings("CONFIRMED") : \A b2 \in BusBookings("CONFIRMED") :
       b1 # b2 => SeatsOfBooking(b1) \cap SeatsOfBooking(b2) = {}

DoneProcs(op) == {p \in Procs : procs[p].pc = "done" /\ procs[p].op = op}

Winners(op) == {p \in DoneProcs(op) : procs[p].ok}

\* C6: N concurrent holdSeats calls for one distinct AVAILABLE seat each, against
\* a cap K < N, end under every interleaving with exactly K successes, N-K
\* quota failures and heldSeats = K.
C6_ExactlyCapSucceed ==
    LET K == calculateMaxHolds(TotalSeats, EffectivePercentage(partner))
    IN  (/\ partner.holdQuotaEnabled
         /\ K < NumProcs
         /\ DoneProcs("holdSeats") = Procs
         /\ \A p \in Procs : \A q \in Procs :
              p # q => procs[p].seatNumbers # procs[q].seatNumbers)
        => /\ Cardinality(Winners("holdSeats")) = K
           /\ schedule.heldSeats = K

\* C7: of the concurrent releaseHold and convertHoldToBooking calls on one ACTIVE
\* hold exactly one succeeds and adjusts the counters; the others return false.
C7_OneCallWinsTheHold ==
    \A h \in DOMAIN holds :
       Cardinality({p \in Winners("releaseHold") \cup Winners("convertHoldToBooking") :
                      procs[p].holdId = h}) <= 1

\* C8: once a hold is RELEASED or CONVERTED no operation changes its status again.
C8_TerminalStatusIsFinal ==
    [][\A h \in DOMAIN holds :
         holds[h].status # "ACTIVE" => holds'[h].status = holds[h].status]_vars

\* C9: a hold past its expiry is released by the sweeper, and once it is
\* released its seats are AVAILABLE (so that they can be held again).
C9_SweptSeatsAreAvailable ==
    [][ReleaseExpiredHolds =>
         \A h \in ExpiredHolds(holds, now) :
            /\ holds'[h].status = "RELEASED"
            /\ \A s \in Range(holds[h].seatNumbers) :
                 schedule'.seatStatus[s] = "AVAILABLE"]_vars

HotelPending(b) ==
    /\ b \in DOMAIN bookings
    /\ bookings[b].category = "HOTEL"
    /\ bookings[b].status = "PENDING"

\* C10: a room moved to heldRooms by createHotelBooking whose booking is never
\* confirmed is eventually returned to availableRooms.
C10_StaleRoomHoldIsReturned ==
    \A b \in 1..MaxBookingRecords :
       HotelPending(b) ~> (~HotelPending(b) \/ roomInventory.heldRooms <= 0)

Unchanged(sched, hs) == [ok |-> FALSE, schedule |-> sched, holds |-> hs]

\* C11: releaseHold on an ACTIVE hold of n seats returns true, adds n to
\* availableSeats, takes n from heldSeats, leaves bookedSeats alone, sets every
\* seat of the hold to AVAILABLE and the hold's status to RELEASED.
C11_ReleaseHoldContract ==
    \A holdId \in DOMAIN holds : \A reason \in ReleaseReasons :
       holds[holdId].status = "ACTIVE" =>
          LET r == releaseHold(schedule, holds, holdId, reason)
              n == Len(holds[holdId].seatNumbers)
          IN  /\ r.ok
              /\ r.schedule.availableSeats = schedule.availableSeats + n
              /\ r.schedule.heldSeats = schedule.heldSeats - n
              /\ r.schedule.bookedSeats = schedule.bookedSeats
              /\ \A s \in Range(holds[holdId].seatNumbers) :
                    r.schedule.seatStatus[s] = "AVAILABLE"
              /\ r.holds[holdId].status = "RELEASED"

\* C12: convertHoldToBooking on an ACTIVE hold of n seats returns true, takes n
\* from heldSeats, adds n to bookedSeats, leaves availableSeats alone, sets every
\* seat of the hold to BOOKED and the hold's status to CONVERTED.
C12_ConvertHoldContract ==
    \A holdId \in DOMAIN holds :
       holds[holdId].status = "ACTIVE" =>
          LET r == convertHoldToBooking(schedule, holds, holdId)
              n == Len(holds[holdId].seatNumbers)
          IN  /\ r.ok
              /\ r.schedule.heldSeats = schedule.heldSeats - n
              /\ r.schedule.bookedSeats = schedule.bookedSeats + n
              /\ r.schedule.availableSeats = schedule.availableSeats
              /\ \A s \in Range(holds[holdId].seatNumbers) :
                    r.schedule.seatStatus[s] = "BOOKED"
              /\ r.holds[holdId].status = "CONVERTED"

\* a hold of two seats has been converted: both seats BOOKED, two seats booked
C12_Witness ==
    \E h \in DOMAIN holds :
       /\ holds[h].status = "CONVERTED"
       /\ Len(holds[h].seatNumbers) = 2
       /\ \A s \in Range(holds[h].seatNumbers) : schedule.seatStatus[s] = "BOOKED"
       /\ schedule.bookedSeats = 2
       /\ schedule.heldSeats = 0

\* C13: releaseHold and convertHoldToBooking on a hold that does not exist or is
\* RELEASED or CONVERTED return false and leave the hold records, the counters
\* and seatStatus as they were.
C13_TerminalOrMissingHoldIsNoOp ==
    \A holdId \in 1..(MaxHoldRecords + 1) :
       (holdId \notin DOMAIN holds \/ holds[holdId].status \in {"RELEASED", "CONVERTED"})
       => /\ \A reason \in ReleaseReasons :
               releaseHold(schedule, holds, holdId, reason) = Unchanged(schedule, holds)
          /\ convertHoldToBooking(schedule, holds, holdId) = Unchanged(schedule, holds)

\* a RELEASED and a CONVERTED hold exist while seats are held or booked
C13_Witness ==
    /\ \E h \in DOMAIN holds : holds[h].status = "RELEASED"
    /\ \E h \in DOMAIN holds : holds[h].status = "CONVERTED"
    /\ schedule.bookedSeats > 0

\* C14: a second confirmBooking of a booking that is already CONFIRMED moves
\* nothing: bookedSeats, heldRooms and bookedRooms stay as the first left them.
C14_RetriedConfirmMovesNothing ==
    [][\A b \in DOMAIN bookings :
         (bookings[b].status = "CONFIRMED" /\ ConfirmBookingOf(b))
         => /\ schedule'.bookedSeats = schedule.bookedSeats
            /\ roomInventory'.heldRooms = roomInventory.heldRooms
            /\ roomInventory'.bookedRooms = roomInventory.bookedRooms]_vars

\* C15: for totalSeats >= 0 and 0 <= pct <= 100, calculateMaxHolds(totalSeats,
\* pct) is floor(totalSeats * pct / 100), the integer q with
\* 100 q <= totalSeats * pct < 100 (q + 1), and is at most totalSeats.
C15_MaxHoldsIsFloor ==
    LET product == calc.totalSeats * calc.holdQuotaPercentage
    IN  /\ 100 * calc.maxHolds <= product
        /\ product < 100 * (calc.maxHolds + 1)
        /\ calc.maxHolds <= calc.totalSeats

\* calculateMaxHolds(7, 50) was called and rounded 3.5 down
C15_Witness ==
    calc.totalSeats = 7 /\ calc.holdQuotaPercentage = 50 /\ calc.maxHolds = 3

C17_DisabledPartnerHoldsNothing ==
    ~partner.holdQuotaEnabled =>
       \A seatNumbers \in SeatLists : \A heldBy \in Users :
          holdSeats(schedule, holds, partner, seatNumbers, heldBy,
                    DEFAULT_HOLD_EXPIRY_MINUTES, now) = Unchanged(schedule, holds)

\* holds are off, time has passed, and nothing is or was ever held
C17_Witness ==
    /\ ~partner.holdQuotaEnabled
    /\ now > 0
    /\ holds = <<>>
    /\ schedule.heldSeats = 0
    /\ \A s \in Seats : schedule.seatStatus[s] = "AVAILABLE"

\* C18: with holdQuotaEnabled = false, createBusBooking for AVAILABLE seats of
\* an ACTIVE schedule still creates the booking.
C18_DisabledPartnerStillBooks ==
    (~partner.holdQuotaEnabled /\ schedule.status = "ACTIVE") =>
       \A userId \in Users : \A passengers \in PassengerLists :
          (/\ schedule.availableSeats >= Len(passengers)
           /\ \A s \in Range(requestedSeatsOf(passengers)) :
                 schedule.seatStatus[s] = "AVAILABLE")
          => createBusBooking(schedule, holds, bookings, partner, userId,
                              passengers, now).ok

\* C19: cancelBooking of a bus booking whose hold is still ACTIVE releases that
\* hold: its status becomes RELEASED and its seats move from heldSeats back to
\* availableSeats.
C19_CancelReleasesTheHold ==
    [][\A b \in DOMAIN bookings :
         (/\ bookings[b].category = "BUS"
          /\ bookings[b].status = "PENDING"
          /\ bookings'[b].status = "CANCELLED")
         => \A h \in ActiveHolds :
               (/\ holds[h].heldBy = bookings[b].userId
                /\ holds[h].seatNumbers = requestedSeatsOf(bookings[b].passengers))
               => /\ holds'[h].status = "RELEASED"
                  /\ schedule'.heldSeats = schedule.heldSeats - Len(holds[h].seatNumbers)
                  /\ schedule'.availableSeats =
                        schedule.availableSeats + Len(holds[h].seatNumbers)]_vars

\* C20: whichever operation set a bus booking CONFIRMED, its seats are BOOKED
\* and no ACTIVE hold covers them any more.
C20_ConfirmedSeatsAreConverted ==
    \A b \in BusBookings("CONFIRMED") : \A s \in SeatsOfBooking(b) :
       /\ schedule.seatStatus[s] = "BOOKED"
       /\ \A h \in ActiveHolds : s \notin Range(holds[h].seatNumbers)

OwnHolds(b) ==
    {h \in ActiveHolds : /\ holds[h].heldBy = bookings[b].userId
                         /\ holds[h].seatNumbers = requestedSeatsOf(bookings[b].passengers)}

\* C21: confirmBooking of a pending bus booking whose own hold is ACTIVE marks
\* that booking's seats BOOKED and leaves ACTIVE every hold on other seats.
C21_ConfirmConvertsOwnHold ==
    [][\A b \in DOMAIN bookings :
         (/\ bookings[b].category = "BUS"
          /\ bookings[b].status = "PENDING"
          /\ OwnHolds(b) # {}
          /\ ConfirmBookingOf(b))
         => /\ \A s \in SeatsOfBooking(b) : schedule'.seatStatus[s] = "BOOKED"
            /\ \A h \in ActiveHolds :
                  Range(holds[h].seatNumbers) \cap SeatsOfBooking(b) = {}
                  => holds'[h].status = "ACTIVE"]_vars

C23_FailedHoldChangesNothing ==
    \A status \in ScheduleStatuses : \A seatNumbers \in SeatLists : \A heldBy \in Users :
       LET sched == [schedule EXCEPT !.status = status]
           r == holdSeats(sched, holds, partner, seatNumbers, heldBy,
                          DEFAULT_HOLD_EXPIRY_MINUTES, now)
       IN  ~r.ok => r = Unchanged(sched, holds)

\* within the quota, seat 1 is taken and seat 2 is free: a request for both
\* fails on seat 1 only
C23_Witness ==
    /\ partner.holdQuotaEnabled
    /\ schedule.heldSeats = 0
    /\ calculateMaxHolds(TotalSeats, EffectivePercentage(partner)) >= 2
    /\ schedule.seatStatus[1] = "BOOKED"
    /\ schedule.seatStatus[2] = "AVAILABLE"

\* C24: one run of releaseExpiredHolds releases every ACTIVE hold whose expiry
\* is at or before now, expiry = now included, and changes no hold whose expiry
\* is later.
C24_SweepReleasesAllDue ==
    LET r == releaseExpiredHolds(schedule, holds, now)
    IN  \A h \in DOMAIN holds :
           /\ (holds[h].status = "ACTIVE" /\ holds[h].holdExpiry <= now)
                 => r.holds[h].status = "RELEASED"
           /\ holds[h].holdExpiry > now => r.holds[h] = holds[h]

\* C25: a hold expires at its creation time plus partner.holdExpiryMinutes,
\* whether holdSeats was called directly or through createBusBooking.
C25_ExpiryFollowsPartnerPolicy ==
    [][\A h \in DOMAIN holds' :
         h \notin DOMAIN holds
         => holds'[h].holdExpiry = now + partner.holdExpiryMinutes]_vars

\* C26: every hold record covers at least one seat.
C26_NoEmptyHold ==
    \A h \in DOMAIN holds : Len(holds[h].seatNumbers) >= 1

RECURSIVE ActiveSeatEntries(_, _)
ActiveSeatEntries(hs, n) ==
    IF n = 0 THEN 0
    ELSE ActiveSeatEntries(hs, n - 1)
         + (IF hs[n].status = "ACTIVE" THEN Len(hs[n].seatNumbers) ELSE 0)

\* C27: heldSeats equals the number of seat entries of the schedule's ACTIVE
\* hold records.
C27_HeldSeatsMatchesActiveHolds ==
    schedule.heldSeats = ActiveSeatEntries(holds, Len(holds))

SeatsWithStatus(status) == {s \in Seats : schedule.seatStatus[s] = status}

\* C28: the number of seats marked HELD equals heldSeats and the number marked
\* BOOKED equals bookedSeats.
C28_SeatStatusMatchesCounters ==
    /\ Cardinality(SeatsWithStatus("HELD")) = schedule.heldSeats
    /\ Cardinality(SeatsWithStatus("BOOKED")) = schedule.bookedSeats

\* C29: a CANCELLED booking is never set CONFIRMED (or anything else) again.
C29_CancelledIsTerminal ==
    [][\A b \in DOMAIN bookings :
         bookings[b].status = "CANCELLED" => bookings'[b].status = "CANCELLED"]_vars

\* C30: under every interleaving of concurrent wallet payments the wallet
\* balance never becomes negative.
C30_WalletNeverNegative ==
    \A u \in Users : wallet[u] >= 0

====
